---- MODULE Spec2Model ----
(***************************************************************************)
(* Navigation history and controller of the embedded live preview.         *)
(*                                                                          *)
(* WebviewComm (src/src/editorPreview/webviewComm.ts) is the controller of  *)
(* one preview panel.  It owns one PageHistory (the HistoryStack of the     *)
(* specification), the panel's live address and the webview it posts        *)
(* messages to.  PageHistory itself (pageHistoryTracker.ts) is not among    *)
(* the sources; its four operations are modelled from section 4.1 of the    *)
(* specification and keep the names WebviewComm calls them by.              *)
(*                                                                          *)
(* A string is a sequence of tokens.  "/" and " " are single characters;    *)
(* every other token is a non-empty word holding neither of them, so that   *)
(* the first token of a string decides what its first character is.         *)
(***************************************************************************)
EXTENDS Integers, Sequences, FiniteSets, Bags

VARIABLES
    entries,         \* PageHistory: the visited addresses, oldest first
    cursor,          \* PageHistory: index (from 0) of the displayed entry
    currentAddress,  \* WebviewComm.currentAddress
    html,            \* the pathname _panel.webview.html was last built for
    inflight,        \* bag of the async calls suspended at their await of the host
    response,        \* the NavResponse the last handler got from PageHistory
    posted,          \* the messages the last handler posted to the webview
    buttons,         \* disabled flags after every changed-history posted
    log,             \* HistorySpec: the last HistoryStack operations called
    nops,            \* HistorySpec: how many operations were called (capped)
    disposed,        \* the panel and its WebviewComm were disposed
    before,          \* bag: the history as it was when each suspended call was requested
    frame,           \* the pathname the nested frame of the webview shows
    toWebview,       \* messages posted to the webview that main.js has not handled yet
    display,         \* main.js: the buttons, the url bar and the stored state
    urlChecks,       \* main.js: bag of the urlCheck requests sent and not answered
    toExtension      \* main.js: messages posted to the extension, not handled yet

\* the panel's life, kept by LifecycleSpec and RaceSpec
lifeVars == <<disposed, before, frame>>

\* the display surface, kept by DisplaySpec and PanelSpec
surfaceVars == <<toWebview, display, urlChecks, toExtension>>

vars == <<entries, cursor, currentAddress, html, inflight, response, posted,
          buttons, log, nops, lifeVars, surfaceVars>>

----------------------------------------------------------------------------
(* Bounds *)

MaxEntries == 3     \* longest history explored
MaxInflight == 1    \* most suspended async calls at once
MaxLog == 3         \* operations remembered by HistorySpec
MaxQueue == 2       \* most messages waiting in one direction
MaxChecks == 2      \* most urlCheck requests unanswered at once

----------------------------------------------------------------------------
(* Strings *)

Index == <<"/", "index.html">>
About == <<"/", "about.html">>
Logo == <<"/", "logo.png">>
LogoRel == <<"logo.png">>
Empty == << >>
Blank == <<" ">>

\* addresses the HistoryStack is exercised with on its own
HistoryAddrs == {Index, About, Logo}

\* addresses a navigation request or a load report carries under Spec
RequestAddrs == {Index, About, LogoRel}

\* the same under BlankSpec: an address, the empty one and a blank one
BlankAddrs == {Index, Empty, Blank}

\* files a panel is opened with
InitialFiles == {Index, LogoRel}

IsBlank(s) == \A i \in 1..Len(s) : s[i] = " "

----------------------------------------------------------------------------
(* NavEditCommands and NavResponse *)

ENABLE_BACK == "ENABLE_BACK"
DISABLE_BACK == "DISABLE_BACK"
ENABLE_FORWARD == "ENABLE_FORWARD"
DISABLE_FORWARD == "DISABLE_FORWARD"

\* an optional address: << >> is undefined, <<a>> is the address a
Undefined == << >>
Defined(a) == <<a>>

NavResponse(op, address, actions) ==
    [op |-> op, address |-> address, actions |-> actions]

\* no PageHistory operation was called
NoResponse == NavResponse("none", Undefined, << >>)

Range(s) == {s[i] : i \in 1..Len(s)}

----------------------------------------------------------------------------
(* PageHistory, the HistoryStack of the specification *)

canGoBack(e, c) == c > 0

canGoForward(e, c) == c < Len(e) - 1

\* NavDelta that never reports a direction becoming unavailable
NavDeltaEnablesOnly(b0, f0, b1, f1) ==
    (IF ~f0 /\ f1 THEN <<ENABLE_FORWARD>> ELSE << >>)
    \o
    (IF ~b0 /\ b1 THEN <<ENABLE_BACK>> ELSE << >>)

\* the transitions between two availabilities, one action per changed direction
NavDelta(b0, f0, b1, f1) ==
    (IF f0 = f1 THEN << >>
     ELSE IF f1 THEN <<ENABLE_FORWARD>> ELSE <<DISABLE_FORWARD>>)
    \o
    (IF b0 = b1 THEN << >>
     ELSE IF b1 THEN <<ENABLE_BACK>> ELSE <<DISABLE_BACK>>)

\* currentActions(): the full state of both directions
currentCommands(e, c) ==
    << IF canGoBack(e, c) THEN ENABLE_BACK ELSE DISABLE_BACK,
       IF canGoForward(e, c) THEN ENABLE_FORWARD ELSE DISABLE_FORWARD >>

\* addHistory that reports DISABLE_FORWARD on every call
addHistoryAlwaysDisablesForward(e, c, address) ==
    LET kept == SubSeq(e, 1, IF c + 1 < Len(e) THEN c + 1 ELSE Len(e))
        e1 == Append(kept, address)
        c1 == Len(e1) - 1
    IN  [entries |-> e1, cursor |-> c1,
         response |-> NavResponse("addHistory", Undefined,
                         <<DISABLE_FORWARD>> \o
                         NavDelta(canGoBack(e, c), FALSE, canGoBack(e1, c1), FALSE))]

\* recordNavigation(address)
addHistory(e, c, address) ==
    LET kept == SubSeq(e, 1, IF c + 1 < Len(e) THEN c + 1 ELSE Len(e))
        e1 == Append(kept, address)
        c1 == Len(e1) - 1
    IN  [entries |-> e1, cursor |-> c1,
         response |-> NavResponse("addHistory", Undefined,
                         NavDelta(canGoBack(e, c), canGoForward(e, c),
                                  canGoBack(e1, c1), canGoForward(e1, c1)))]

\* goBackward that moves the cursor without looking at it
goBackwardUnguarded(e, c) ==
    [entries |-> e, cursor |-> c - 1,
     response |-> NavResponse("goBackward",
                     IF c > 0 /\ c <= Len(e) THEN Defined(e[c]) ELSE Undefined,
                     NavDelta(canGoBack(e, c), canGoForward(e, c),
                              canGoBack(e, c - 1), canGoForward(e, c - 1)))]

\* goBackward that reports DISABLE_BACK again when it cannot move
goBackwardRepeatsDisable(e, c) ==
    IF ~canGoBack(e, c)
    THEN [entries |-> e, cursor |-> c,
          response |-> NavResponse("goBackward", Undefined, <<DISABLE_BACK>>)]
    ELSE [entries |-> e, cursor |-> c - 1,
          response |-> NavResponse("goBackward", Defined(e[c]),
                          NavDelta(canGoBack(e, c), canGoForward(e, c),
                                   canGoBack(e, c - 1), canGoForward(e, c - 1)))]

\* goBack()
goBackward(e, c) ==
    IF ~canGoBack(e, c)
    THEN [entries |-> e, cursor |-> c,
          response |-> NavResponse("goBackward", Undefined, << >>)]
    ELSE [entries |-> e, cursor |-> c - 1,
          response |-> NavResponse("goBackward", Defined(e[c]),
                          NavDelta(canGoBack(e, c), canGoForward(e, c),
                                   canGoBack(e, c - 1), canGoForward(e, c - 1)))]

\* goForward that returns the entry it leaves
goForwardStale(e, c) ==
    IF ~canGoForward(e, c)
    THEN [entries |-> e, cursor |-> c,
          response |-> NavResponse("goForward", Undefined, << >>)]
    ELSE [entries |-> e, cursor |-> c + 1,
          response |-> NavResponse("goForward", Defined(e[c + 1]),
                          NavDelta(canGoBack(e, c), canGoForward(e, c),
                                   canGoBack(e, c + 1), canGoForward(e, c + 1)))]

\* goForward()
goForward(e, c) ==
    IF ~canGoForward(e, c)
    THEN [entries |-> e, cursor |-> c,
          response |-> NavResponse("goForward", Undefined, << >>)]
    ELSE [entries |-> e, cursor |-> c + 1,
          response |-> NavResponse("goForward", Defined(e[c + 2]),
                          NavDelta(canGoBack(e, c), canGoForward(e, c),
                                   canGoBack(e, c + 1), canGoForward(e, c + 1)))]

----------------------------------------------------------------------------
(* HistorySpec: a HistoryStack on its own, from no history *)

\* main.js before any document is loaded in the webview
NoDocument ==
    [loaded |-> FALSE, back |-> FALSE, forward |-> FALSE, urlInput |-> Empty,
     currentAddress |-> Empty]

\* no panel life and no display surface are followed
Detached ==
    /\ disposed = FALSE
    /\ before = EmptyBag
    /\ frame = Undefined
    /\ toWebview = << >>
    /\ display = NoDocument
    /\ urlChecks = EmptyBag
    /\ toExtension = << >>

Apart == UNCHANGED <<lifeVars, surfaceVars>>

Logged(op, arg) ==
    /\ log' = (IF Len(log) < MaxLog THEN log ELSE Tail(log))
                  \o <<[op |-> op, arg |-> arg]>>
    /\ nops' = (IF nops > MaxLog THEN nops ELSE nops + 1)

Applied(r) ==
    /\ entries' = r.entries
    /\ cursor' = r.cursor
    /\ response' = r.response
    /\ UNCHANGED <<currentAddress, html, inflight, posted, buttons>>
    /\ Apart

HistoryInit ==
    /\ Detached
    /\ entries = << >>
    /\ cursor = 0
    /\ currentAddress = Empty
    /\ html = Undefined
    /\ inflight = EmptyBag
    /\ response = NoResponse
    /\ posted = << >>
    /\ buttons = [back |-> TRUE, forward |-> TRUE]
    /\ log = << >>
    /\ nops = 0

recordNavigation(address) ==
    /\ Len(entries) < MaxEntries \/ cursor < Len(entries) - 1
    /\ Applied(addHistory(entries, cursor, address))
    /\ Logged("addHistory", address)

historyBack ==
    /\ Applied(goBackward(entries, cursor))
    /\ Logged("goBackward", Empty)

historyForward ==
    /\ Applied(goForward(entries, cursor))
    /\ Logged("goForward", Empty)

HistoryNext ==
    \/ \E address \in HistoryAddrs : recordNavigation(address)
    \/ historyBack
    \/ historyForward

HistorySpec == HistoryInit /\ [][HistoryNext]_vars

----------------------------------------------------------------------------
(* WebviewComm: helpers *)

HostURI == "http://127.0.0.1:3000/"

\* utils.isFileInjectable: only html documents get the injected script
InjectableWords == {"index.html", "about.html"}

isFileInjectable(URLExt) ==
    Len(URLExt) > 0 /\ URLExt[Len(URLExt)] \in InjectableWords

\* the host followed by URLExt without its leading separator
constructAddress(URLExt, hostURI) ==
    LET a == IF Len(URLExt) > 0 /\ URLExt[1] = "/" THEN Tail(URLExt) ELSE URLExt
        b == IF Len(a) > 0 /\ a[1] = "/" THEN Tail(a) ELSE a
    IN  <<hostURI>> \o b

\* handleNavAction with the two forward cases exchanged
handleNavActionSwapped(command) ==
    [command |-> "changed-history",
     text |-> CASE command = DISABLE_BACK -> [element |-> "back", disabled |-> TRUE]
                [] command = ENABLE_BACK -> [element |-> "back", disabled |-> FALSE]
                [] command = DISABLE_FORWARD -> [element |-> "forward", disabled |-> FALSE]
                [] command = ENABLE_FORWARD -> [element |-> "forward", disabled |-> TRUE]]

\* the changed-history message of one NavEditCommand
handleNavAction(command) ==
    [command |-> "changed-history",
     text |-> CASE command = DISABLE_BACK -> [element |-> "back", disabled |-> TRUE]
                [] command = ENABLE_BACK -> [element |-> "back", disabled |-> FALSE]
                [] command = DISABLE_FORWARD -> [element |-> "forward", disabled |-> TRUE]
                [] command = ENABLE_FORWARD -> [element |-> "forward", disabled |-> FALSE]]

\* one changed-history message for each action, in order
relay(actions) == [i \in 1..Len(actions) |-> handleNavAction(actions[i])]

setUrlMessage(URLExt) ==
    [command |-> "set-url",
     text |-> [fullPath |-> constructAddress(URLExt, HostURI), pathname |-> URLExt]]

\* the disabled flags b after message m
ApplyMessage(b, m) ==
    IF m.command = "changed-history"
    THEN [b EXCEPT ![m.text.element] = m.text.disabled]
    ELSE b

RECURSIVE ApplyMessages(_, _)
ApplyMessages(b, msgs) ==
    IF msgs = << >> THEN b
    ELSE ApplyMessages(ApplyMessage(b, Head(msgs)), Tail(msgs))

\* _panel.webview.postMessage for each of msgs
Post(msgs) ==
    /\ posted' = msgs
    /\ buttons' = ApplyMessages(buttons, msgs)

\* "only load relative addresses": pathname with a leading separator
relativeAddress(pathname) ==
    IF Len(pathname) > 0 /\ pathname[1] # "/" THEN <<"/">> \o pathname
    ELSE pathname

\* handleNewPageLoad that records pathname as it was given
handleNewPageLoadRaw(e, c, pathname) ==
    LET r == addHistory(e, c, pathname)
    IN  [currentAddress |-> pathname, entries |-> r.entries, cursor |-> r.cursor,
         response |-> r.response, posted |-> relay(r.response.actions)]

\* what handleNewPageLoad(pathname) leaves behind and posts
handleNewPageLoad(e, c, pathname) ==
    LET p == relativeAddress(pathname)
        r == addHistory(e, c, p)
    IN  [currentAddress |-> p, entries |-> r.entries, cursor |-> r.cursor,
         response |-> r.response, posted |-> relay(r.response.actions)]

Suspended(call, URLExt, updateHistory) ==
    [call |-> call, URLExt |-> URLExt, updateHistory |-> updateHistory]

\* the suspended calls; they resume in any order
Pending == BagToSet(inflight)

Suspend(s) == inflight' = inflight (+) SetToBag({s})

Resume(s) == inflight' = inflight (-) SetToBag({s})

\* the history has room for one more recorded navigation
Room == Len(entries) < MaxEntries \/ cursor < Len(entries) - 1

----------------------------------------------------------------------------
(* WebviewComm: the state after the constructor *)

Init ==
    \E initialFile \in InitialFiles :
        LET r == addHistory(<< >>, 0, initialFile)
            m == relay(currentCommands(<< >>, 0))
        IN  /\ entries = r.entries
            /\ cursor = r.cursor
            /\ currentAddress = initialFile
            /\ html = Undefined
            /\ inflight = SetToBag({Suspended("setHtml", initialFile, FALSE)})
            /\ response = r.response
            /\ posted = m
            /\ buttons = ApplyMessages([back |-> FALSE, forward |-> FALSE], m)
            /\ log = << >>
            /\ nops = 0

----------------------------------------------------------------------------
(* WebviewComm: handlers *)

\* goToFile(URLExt): setHtml runs to its first await, then currentAddress is set
goToFile(URLExt) ==
    /\ BagCardinality(inflight) < MaxInflight
    /\ Suspend(Suspended("setHtml", URLExt, TRUE))
    /\ currentAddress' = URLExt
    /\ response' = NoResponse
    /\ Post(<< >>)
    /\ UNCHANGED <<entries, cursor, html, log, nops>>

\* setHtml that calls handleNewPageLoad whatever updateHistory is
setHtmlAlwaysRecords(s) ==
    LET h == handleNewPageLoad(entries, cursor, s.URLExt)
        url == IF isFileInjectable(s.URLExt) THEN << >>
               ELSE <<setUrlMessage(s.URLExt)>>
    IN  /\ s.call = "setHtml"
        /\ Room
        /\ Resume(s)
        /\ html' = Defined(s.URLExt)
        /\ currentAddress' = h.currentAddress
        /\ entries' = h.entries
        /\ cursor' = h.cursor
        /\ response' = h.response
        /\ Post(url \o h.posted)
        /\ UNCHANGED <<log, nops>>

\* setHtml resumes with the hosts resolved
setHtml(s) ==
    LET h == handleNewPageLoad(entries, cursor, s.URLExt)
        url == IF isFileInjectable(s.URLExt) THEN << >>
               ELSE <<setUrlMessage(s.URLExt)>>
    IN  /\ s.call = "setHtml"
        /\ s.updateHistory => Room
        /\ Resume(s)
        /\ html' = Defined(s.URLExt)
        /\ IF s.updateHistory
           THEN /\ currentAddress' = h.currentAddress
                /\ entries' = h.entries
                /\ cursor' = h.cursor
                /\ response' = h.response
                /\ Post(url \o h.posted)
           ELSE /\ response' = NoResponse
                /\ Post(url)
                /\ UNCHANGED <<currentAddress, entries, cursor>>
        /\ UNCHANGED <<log, nops>>

\* setUrlBar(pathname) suspends on the host inside constructAddress
setUrlBar(pathname) ==
    /\ BagCardinality(inflight) < MaxInflight
    /\ Suspend(Suspended("setUrlBar", pathname, TRUE))
    /\ response' = NoResponse
    /\ Post(<< >>)
    /\ UNCHANGED <<entries, cursor, currentAddress, html, log, nops>>

\* setUrlBar that posts set-url and forgets handleNewPageLoad
setUrlBarResumesUnrecorded(s) ==
    /\ s.call = "setUrlBar"
    /\ Room
    /\ Resume(s)
    /\ response' = NoResponse
    /\ Post(<<setUrlMessage(s.URLExt)>>)
    /\ UNCHANGED <<entries, cursor, currentAddress, html, log, nops>>

\* setUrlBar resumes: posts set-url, then records the load
setUrlBarResumes(s) ==
    LET h == handleNewPageLoad(entries, cursor, s.URLExt)
    IN  /\ s.call = "setUrlBar"
        /\ Room
        /\ Resume(s)
        /\ currentAddress' = h.currentAddress
        /\ entries' = h.entries
        /\ cursor' = h.cursor
        /\ response' = h.response
        /\ Post(<<setUrlMessage(s.URLExt)>> \o h.posted)
        /\ UNCHANGED <<html, log, nops>>

\* the host cannot be resolved: the suspended call throws
resolveHostFails(s) ==
    /\ Resume(s)
    /\ response' = NoResponse
    /\ Post(<< >>)
    /\ UNCHANGED <<entries, cursor, currentAddress, html, log, nops>>

\* the nested frame reports a load: handleNewPageLoad(pathname)
notifyExternalLoad(pathname) ==
    LET h == handleNewPageLoad(entries, cursor, pathname)
    IN  /\ Room
        /\ currentAddress' = h.currentAddress
        /\ entries' = h.entries
        /\ cursor' = h.cursor
        /\ response' = h.response
        /\ Post(h.posted)
        /\ UNCHANGED <<html, inflight, log, nops>>

updateForwardBackArrows ==
    /\ response' = NoResponse
    /\ Post(relay(currentCommands(entries, cursor)))
    /\ UNCHANGED <<entries, cursor, currentAddress, html, inflight, log, nops>>

\* navigate that forgets the loop over response.actions
navigateWithoutRelay(r) ==
    /\ entries' = r.entries
    /\ cursor' = r.cursor
    /\ response' = r.response
    /\ IF r.response.address # Undefined
       THEN /\ BagCardinality(inflight) < MaxInflight
            /\ Suspend(Suspended("setHtml", r.response.address[1], FALSE))
            /\ currentAddress' = r.response.address[1]
       ELSE UNCHANGED <<inflight, currentAddress>>
    /\ Post(<< >>)
    /\ UNCHANGED <<html, log, nops>>

\* what goBack and goForwards do with the response r of PageHistory
navigate(r) ==
    /\ entries' = r.entries
    /\ cursor' = r.cursor
    /\ response' = r.response
    /\ IF r.response.address # Undefined
       THEN /\ BagCardinality(inflight) < MaxInflight
            /\ Suspend(Suspended("setHtml", r.response.address[1], FALSE))
            /\ currentAddress' = r.response.address[1]
       ELSE UNCHANGED <<inflight, currentAddress>>
    /\ Post(relay(r.response.actions))
    /\ UNCHANGED <<html, log, nops>>

\* goForwards that asks PageHistory to go backward
goForwardsWrongWay == navigate(goBackward(entries, cursor))

goForwards == navigate(goForward(entries, cursor))

goBack == navigate(goBackward(entries, cursor))

Next ==
    \/ \E URLExt \in RequestAddrs : goToFile(URLExt) /\ Apart
    \/ \E s \in Pending : setHtml(s) /\ Apart
    \/ \E pathname \in RequestAddrs : setUrlBar(pathname) /\ Apart
    \/ \E s \in Pending : setUrlBarResumes(s) /\ Apart
    \/ \E s \in Pending : resolveHostFails(s) /\ Apart
    \/ \E pathname \in RequestAddrs : notifyExternalLoad(pathname) /\ Apart
    \/ updateForwardBackArrows /\ Apart
    \/ goForwards /\ Apart
    \/ goBack /\ Apart

\* the panel after its constructor, nothing else followed
Created == Init /\ Detached

Spec == Created /\ [][Next]_vars

\* the same handlers, with requests that carry an empty or a blank address
BlankNext ==
    \/ \E URLExt \in BlankAddrs : goToFile(URLExt) /\ Apart
    \/ \E s \in Pending : setHtml(s) /\ Apart
    \/ \E pathname \in BlankAddrs : setUrlBar(pathname) /\ Apart
    \/ \E s \in Pending : setUrlBarResumes(s) /\ Apart
    \/ \E s \in Pending : resolveHostFails(s) /\ Apart
    \/ \E pathname \in BlankAddrs : notifyExternalLoad(pathname) /\ Apart
    \/ updateForwardBackArrows /\ Apart
    \/ goForwards /\ Apart
    \/ goBack /\ Apart

BlankSpec == Created /\ [][BlankNext]_vars
----------------------------------------------------------------------------
(* WebviewComm over the life of its panel (LifecycleSpec) *)

\* addresses a navigation request carries under LifecycleSpec and RaceSpec
LifeAddrs == {Index, LogoRel}

\* the history as it was when the call s was requested
Snapshot(s, e, c) == [call |-> s, entries |-> e, cursor |-> c]

\* the call a step has suspended
Requested ==
    CHOOSE s \in BagToSet(inflight') : CopiesIn(s, inflight') > CopiesIn(s, inflight)

\* a handler called on a live panel; if it suspends a call, the history it was
\* called with is kept
Requests(handler) ==
    /\ ~disposed
    /\ handler
    /\ before' = IF inflight' = inflight THEN before
                 ELSE before (+) SetToBag({Snapshot(Requested, entries, cursor)})
    /\ UNCHANGED <<disposed, frame, surfaceVars>>

\* the suspended call s settles (nothing in it looks at the panel's disposal)
Completes(continuation, s) ==
    /\ continuation
    /\ \E b \in BagToSet(before) :
           /\ b.call = s
           /\ before' = before (-) SetToBag({b})
    /\ UNCHANGED <<disposed, frame, surfaceVars>>

\* the panel is closed: Disposable.dispose()
dispose ==
    /\ ~disposed
    /\ disposed' = TRUE
    /\ UNCHANGED <<entries, cursor, currentAddress, html, inflight, response,
                   posted, buttons, log, nops, before, frame, surfaceVars>>

\* a panel opened with Index; its constructor has called goToFile on no history
LifecycleInit ==
    /\ Init
    /\ currentAddress = Index
    /\ disposed = FALSE
    /\ before = SetToBag({Snapshot(Suspended("setHtml", Index, FALSE), << >>, 0)})
    /\ frame = Undefined
    /\ toWebview = << >>
    /\ display = NoDocument
    /\ urlChecks = EmptyBag
    /\ toExtension = << >>

LifecycleNext ==
    \/ \E URLExt \in LifeAddrs : Requests(goToFile(URLExt))
    \/ \E pathname \in LifeAddrs : Requests(setUrlBar(pathname))
    \/ Requests(goBack)
    \/ Requests(goForwards)
    \/ \E s \in Pending : Completes(setHtml(s), s)
    \/ \E s \in Pending : Completes(setUrlBarResumes(s), s)
    \/ \E s \in Pending : Completes(resolveHostFails(s), s)
    \/ dispose

LifecycleSpec == LifecycleInit /\ [][LifecycleNext]_vars

----------------------------------------------------------------------------
(* WebviewComm and the frame it hosts, every host resolution succeeding
   (RaceSpec) *)

\* pages the hosted frame is sent to or walks to under RaceSpec
RaceAddrs == {Index, About}

\* a handler runs and the hosted frame shows a afterwards
Shows(handler, a) ==
    /\ handler
    /\ frame' = a
    /\ UNCHANGED <<disposed, before, surfaceVars>>

RaceInit ==
    /\ Init
    /\ currentAddress = Index
    /\ Detached

RaceNext ==
    \/ \E URLExt \in RaceAddrs : Shows(goToFile(URLExt), frame)
    \/ \E s \in Pending : Shows(setHtml(s), Defined(s.URLExt))
    \/ \E pathname \in RaceAddrs :
           \* a link followed inside the frame: the page loaded reports itself
           /\ frame # Undefined
           /\ Shows(notifyExternalLoad(pathname), Defined(pathname))
    \/ Shows(goForwards, frame)
    \/ Shows(goBack, frame)

RaceSpec == RaceInit /\ [][RaceNext]_vars

----------------------------------------------------------------------------
(* media/main.js: the script of the webview (DisplaySpec) *)

\* window.location.pathname of the webview's own document
WebviewPathname == <<"/", "webview.html">>

\* main.js has run in a freshly loaded document: both buttons enabled, the
\* url bar empty
Document ==
    [loaded |-> TRUE, back |-> FALSE, forward |-> FALSE, urlInput |-> Empty,
     currentAddress |-> WebviewPathname]

Message(command, text) == [command |-> command, text |-> text]

\* what a handler of main.js leaves: the document, the messages it posted to
\* the extension and the data it sent on the WebSocket
Handled(d, p, c) == [display |-> d, posted |-> p, sent |-> c]

\* the listener of window "message" whose set-url case enables the back button
onMessageUrlEnablesBack(d, message) ==
    CASE message.command = "enable-back" ->
             Handled([d EXCEPT !.back = FALSE], << >>, << >>)
      [] message.command = "disable-back" ->
             Handled([d EXCEPT !.back = TRUE], << >>, << >>)
      [] message.command = "enable-forward" ->
             Handled([d EXCEPT !.forward = FALSE], << >>, << >>)
      [] message.command = "disable-forward" ->
             Handled([d EXCEPT !.forward = TRUE], << >>, << >>)
      [] message.command = "update-path" ->
             Handled([d EXCEPT !.urlInput = message.text.fullPath.href,
                               !.currentAddress = message.text.pathname],
                     <<Message("update-path", message.text)>>, << >>)
      [] message.command = "set-url" ->
             Handled([d EXCEPT !.urlInput = message.text.fullPath,
                               !.currentAddress = message.text.pathname,
                               !.back = FALSE],
                     << >>, << >>)
      [] message.command = "open-external-link" ->
             Handled(d, <<Message("open-browser", message.text)>>, << >>)
      [] message.command = "perform-url-check" ->
             Handled(d, << >>, <<[command |-> "urlCheck", url |-> message.text]>>)
      [] OTHER -> Handled(d, << >>, << >>)

\* the listener of window "message"; a command without a case changes nothing
onMessage(d, message) ==
    CASE message.command = "enable-back" ->
             Handled([d EXCEPT !.back = FALSE], << >>, << >>)
      [] message.command = "disable-back" ->
             Handled([d EXCEPT !.back = TRUE], << >>, << >>)
      [] message.command = "enable-forward" ->
             Handled([d EXCEPT !.forward = FALSE], << >>, << >>)
      [] message.command = "disable-forward" ->
             Handled([d EXCEPT !.forward = TRUE], << >>, << >>)
      [] message.command = "update-path" ->
             Handled([d EXCEPT !.urlInput = message.text.fullPath.href,
                               !.currentAddress = message.text.pathname],
                     <<Message("update-path", message.text)>>, << >>)
      [] message.command = "set-url" ->
             Handled([d EXCEPT !.urlInput = message.text.fullPath,
                               !.currentAddress = message.text.pathname],
                     << >>, << >>)
      [] message.command = "open-external-link" ->
             Handled(d, <<Message("open-browser", message.text)>>, << >>)
      [] message.command = "perform-url-check" ->
             Handled(d, << >>, <<[command |-> "urlCheck", url |-> message.text]>>)
      [] OTHER -> Handled(d, << >>, << >>)

\* connection.onmessage
onSocketMessage(d, parsedMessage) ==
    IF parsedMessage.command = "foundNonInjectable"
    THEN Handled(d, <<Message("add-history", parsedMessage.path)>>, << >>)
    ELSE Handled(d, << >>, << >>)

\* the urls of the data sent on the WebSocket
RECURSIVE Urls(_)
Urls(sent) ==
    IF sent = << >> THEN EmptyBag
    ELSE SetToBag({Head(sent).url}) (+) Urls(Tail(sent))

\* the effects of a handler of main.js on what surrounds the document
Leaves(h) ==
    /\ Len(toExtension) + Len(h.posted) <= MaxQueue
    /\ BagCardinality(urlChecks) + Len(h.sent) <= MaxChecks
    /\ display' = h.display
    /\ toExtension' = toExtension \o h.posted
    /\ urlChecks' = urlChecks (+) Urls(h.sent)

\* addresses the messages to main.js carry under DisplaySpec and PanelSpec
DisplayAddrs == {Index, LogoRel}

\* update-path as the script injected in the hosted page posts it
updatePathMessage(pathname) ==
    Message("update-path",
            [fullPath |-> [href |-> constructAddress(pathname, HostURI)],
             pathname |-> pathname])

\* the messages about the navigation buttons: those WebviewComm posts and
\* those main.js has a case for
NavActionMessages ==
    {handleNavAction(c) :
         c \in {ENABLE_BACK, DISABLE_BACK, ENABLE_FORWARD, DISABLE_FORWARD}}
    \cup {Message(c, Empty) :
              c \in {"enable-back", "disable-back", "enable-forward",
                     "disable-forward"}}

\* the messages about the address shown
AddressMessages ==
    {setUrlMessage(a) : a \in DisplayAddrs}
    \cup {updatePathMessage(a) : a \in DisplayAddrs}

\* every message the window of main.js is sent under DisplaySpec
WindowMessages ==
    NavActionMessages \cup AddressMessages
    \cup {Message("refresh", Empty)}
    \cup {Message(c, a) : c \in {"open-external-link", "perform-url-check"},
                          a \in DisplayAddrs}

\* the verdict of the server on a urlCheck (the server is not among the sources)
Verdict(url) ==
    IF isFileInjectable(url) THEN [command |-> "foundInjectable", path |-> url]
    ELSE [command |-> "foundNonInjectable", path |-> url]

\* main.js alone, in a loaded document; its surroundings are not followed
DisplayInit ==
    /\ entries = << >>
    /\ cursor = 0
    /\ currentAddress = Empty
    /\ html = Undefined
    /\ inflight = EmptyBag
    /\ response = NoResponse
    /\ posted = << >>
    /\ buttons = [back |-> FALSE, forward |-> FALSE]
    /\ log = << >>
    /\ nops = 0
    /\ disposed = FALSE
    /\ before = EmptyBag
    /\ frame = Undefined
    /\ toWebview = << >>
    /\ display = Document
    /\ urlChecks = EmptyBag
    /\ toExtension = << >>

\* everything but main.js
extensionVars ==
    <<entries, cursor, currentAddress, html, inflight, response, posted,
      buttons, log, nops, lifeVars, toWebview>>

\* the window of main.js is sent message
windowMessage(message) ==
    /\ Leaves(onMessage(display, message))
    /\ UNCHANGED extensionVars

\* the server answers one of the urlCheck requests
socketMessage(url) ==
    /\ BagIn(url, urlChecks)
    /\ LET h == onSocketMessage(display, Verdict(url))
       IN  /\ Len(toExtension) + Len(h.posted) <= MaxQueue
           /\ display' = h.display
           /\ toExtension' = toExtension \o h.posted
    /\ urlChecks' = urlChecks (-) SetToBag({url})
    /\ UNCHANGED extensionVars

\* the back or the forward button is clicked
onclick(id) ==
    /\ ~display[id]
    /\ Leaves(Handled(display, <<Message("go-" \o id, Empty)>>, << >>))
    /\ UNCHANGED extensionVars

\* the extension takes the oldest message main.js posted
extensionReceives ==
    /\ toExtension # << >>
    /\ toExtension' = Tail(toExtension)
    /\ UNCHANGED <<extensionVars, display, urlChecks>>

DisplayNext ==
    \/ \E message \in WindowMessages : windowMessage(message)
    \/ \E url \in DisplayAddrs : socketMessage(url)
    \/ \E id \in {"back", "forward"} : onclick(id)
    \/ extensionReceives

DisplaySpec == DisplayInit /\ [][DisplayNext]_vars

----------------------------------------------------------------------------
(* WebviewComm and main.js in one panel (PanelSpec) *)

\* the messages of the last handler are queued for the webview
Queued ==
    /\ Len(toWebview) + Len(posted') <= MaxQueue
    /\ toWebview' = toWebview \o posted'

\* the extension takes the oldest message of main.js and calls WebviewComm
dispatch ==
    /\ toExtension # << >>
    /\ LET message == Head(toExtension)
       IN  CASE message.command = "go-back" -> goBack
             [] message.command = "go-forward" -> goForwards
             [] message.command = "refresh-back-forward-buttons" ->
                    updateForwardBackArrows
             [] message.command = "add-history" -> setUrlBar(message.text)
             [] message.command = "update-path" ->
                    notifyExternalLoad(message.text.pathname)
             [] OTHER ->
                    /\ response' = NoResponse
                    /\ Post(<< >>)
                    /\ UNCHANGED <<entries, cursor, currentAddress, html,
                                   inflight, log, nops>>
    /\ toExtension' = Tail(toExtension)
    /\ Queued
    /\ UNCHANGED <<lifeVars, display, urlChecks>>

\* setHtml resumes: the webview loads the new html, main.js runs in it (a new
\* WebSocket) and its DOMContentLoaded listener asks for the button state
rendered(s) ==
    /\ setHtml(s)
    /\ Queued
    /\ Len(toExtension) < MaxQueue
    /\ display' = Document
    /\ urlChecks' = EmptyBag
    /\ toExtension' =
           Append(toExtension, Message("refresh-back-forward-buttons", Empty))
    /\ UNCHANGED lifeVars

\* setUrlBar resumes, or a suspended call rejects
settled(continuation) ==
    /\ continuation
    /\ Queued
    /\ UNCHANGED <<lifeVars, display, urlChecks, toExtension>>

\* main.js handles the oldest message posted to the webview
delivered ==
    /\ display.loaded
    /\ toWebview # << >>
    /\ Leaves(onMessage(display, Head(toWebview)))
    /\ toWebview' = Tail(toWebview)
    /\ UNCHANGED <<entries, cursor, currentAddress, html, inflight, response,
                   posted, buttons, log, nops, lifeVars>>

\* what the hosted page sends the window of main.js: the load of an html page
\* it walked to, the check of a link
FrameMessages ==
    {updatePathMessage(a) : a \in {a \in DisplayAddrs : isFileInjectable(a)}}
    \cup {Message("perform-url-check", a) : a \in DisplayAddrs}

\* a panel opened with Index; the messages of the constructor wait for main.js
PanelInit ==
    /\ Init
    /\ currentAddress = Index
    /\ disposed = FALSE
    /\ before = EmptyBag
    /\ frame = Undefined
    /\ toWebview = posted
    /\ display = NoDocument
    /\ urlChecks = EmptyBag
    /\ toExtension = << >>

PanelNext ==
    \/ dispatch
    \/ \E s \in Pending : rendered(s)
    \/ \E s \in Pending : settled(setUrlBarResumes(s))
    \/ \E s \in Pending : settled(resolveHostFails(s))
    \/ delivered
    \/ \E message \in FrameMessages : display.loaded /\ windowMessage(message)
    \/ \E url \in DisplayAddrs : socketMessage(url)
    \/ \E id \in {"back", "forward"} : display.loaded /\ onclick(id)

PanelSpec == PanelInit /\ [][PanelNext]_vars

\* the same panel with nothing but the checks of links going on in it
CheckNext ==
    \/ dispatch
    \/ \E s \in Pending : rendered(s)
    \/ \E s \in Pending : settled(setUrlBarResumes(s))
    \/ \E s \in Pending : settled(resolveHostFails(s))
    \/ delivered
    \/ \E url \in DisplayAddrs :
           display.loaded /\ windowMessage(Message("perform-url-check", url))
    \/ \E url \in DisplayAddrs : socketMessage(url)

CheckSpec == PanelInit /\ [][CheckNext]_vars

\* goToFile(URLExt, true) called by the extension on the panel
navigated(URLExt) ==
    /\ goToFile(URLExt)
    /\ Queued
    /\ UNCHANGED <<lifeVars, display, urlChecks, toExtension>>

\* the checks of links in a panel that is also navigated by the extension and
\* by its back and forward buttons
ReportNext ==
    \/ dispatch
    \/ \E URLExt \in DisplayAddrs : navigated(URLExt)
    \/ \E s \in Pending : rendered(s)
    \/ \E s \in Pending : settled(setUrlBarResumes(s))
    \/ delivered
    \/ \E url \in DisplayAddrs :
           display.loaded /\ windowMessage(Message("perform-url-check", url))
    \/ \E url \in DisplayAddrs : socketMessage(url)
    \/ \E id \in {"back", "forward"} : display.loaded /\ onclick(id)

ReportSpec == PanelInit /\ [][ReportNext]_vars

----------------------------------------------------------------------------
(* Properties of the HistoryStack on its own (HistorySpec) *)

Op(op, arg) == [op |-> op, arg |-> arg]

\* the last n operations called, oldest first
LastOps(n) == SubSeq(log, Len(log) - n + 1, Len(log))

\* C1: once entries is non-empty it stays non-empty, and in every state with
\* entries the cursor is an index of entries: 0 <= cursor < entries.length.
C1_CursorInRange ==
    [][/\ entries # << >> => entries' # << >>
       /\ entries' # << >> => (0 <= cursor' /\ cursor' < Len(entries'))]_vars

\* C1 witness: goBack has moved the cursor into the middle of three entries
C1_Witness ==
    /\ Len(entries) = 3
    /\ cursor = 1
    /\ response.op = "goBackward"
    /\ response.address # Undefined

\* the last three operations were recordNavigation(X); goBack(); goForward()
RoundTrip(X) ==
    /\ Len(log) >= 3
    /\ LastOps(3) = <<Op("addHistory", X), Op("goBackward", Empty),
                      Op("goForward", Empty)>>

OnEntryFor(X) ==
    /\ cursor = Len(entries) - 1
    /\ entries[cursor + 1] = X

\* C7 as stated: from any reachable history state, recordNavigation(X);
\* goBack(); goForward() leaves the cursor on the entry for X and the
\* goForward() returns address X.
C7_RoundTripFromAnyState ==
    \A X \in HistoryAddrs :
        RoundTrip(X) => (OnEntryFor(X) /\ response.address = Defined(X))

\* C7 amended: from any history state that holds at least one entry,
\* recordNavigation(X); goBack(); goForward() leaves the cursor on the entry
\* for X and the goForward() returns address X.  (From no history the cursor
\* ends on X as well, but goBack() and goForward() are both no-ops and the
\* goForward() returns no address.)
C7_RoundTrip ==
    \A X \in HistoryAddrs :
        (RoundTrip(X) /\ Len(entries) >= 2)
            => (OnEntryFor(X) /\ response.address = Defined(X))

\* C7 witness: the round trip was made on a history that held an entry
C7_Witness ==
    \E X \in HistoryAddrs :
        /\ RoundTrip(X)
        /\ Len(entries) >= 2
        /\ entries[Len(entries) - 1] # X
        /\ response.address = Defined(X)

\* from no history: record(A); record(B); goBack()
RecordRecordBack(A, B) ==
    /\ nops = 3
    /\ log = <<Op("addHistory", A), Op("addHistory", B), Op("goBackward", Empty)>>

\* C8 as stated: from an empty history, after record(A); record(B); goBack(),
\* the goBack() reports ENABLE_FORWARD and reports no action for the back
\* direction, because back remains enabled.
C8_BackStaysEnabled ==
    \A A, B \in HistoryAddrs :
        RecordRecordBack(A, B)
            => /\ ENABLE_FORWARD \in Range(response.actions)
               /\ Range(response.actions) \cap {ENABLE_BACK, DISABLE_BACK} = {}

\* C8 amended: from an empty history, after record(A); record(B); goBack(),
\* the goBack() reports ENABLE_FORWARD and DISABLE_BACK, because the cursor is
\* back at 0 and back is no longer available.
C8_BackBecomesDisabled ==
    \A A, B \in HistoryAddrs :
        RecordRecordBack(A, B)
            => /\ Len(response.actions) = 2
               /\ Range(response.actions) = {ENABLE_FORWARD, DISABLE_BACK}

\* C8 witness: the three calls were made and the cursor is on the first entry
C8_Witness ==
    \E A, B \in HistoryAddrs :
        /\ A # B
        /\ RecordRecordBack(A, B)
        /\ entries = <<A, B>>
        /\ cursor = 0

\* C9: from no history, recordNavigation("/index.html") gives cursor 0,
\* entries ["/index.html"] and no actions; recordNavigation("/about.html")
\* then returns exactly [ENABLE_BACK]; goBack() then returns address
\* "/index.html" with actions exactly {ENABLE_FORWARD, DISABLE_BACK}.
C9_Scenario ==
    /\ (nops = 1 /\ log = <<Op("addHistory", Index)>>)
           => /\ cursor = 0
              /\ entries = <<Index>>
              /\ response.actions = << >>
    /\ (nops = 2 /\ log = <<Op("addHistory", Index), Op("addHistory", About)>>)
           => response.actions = <<ENABLE_BACK>>
    /\ RecordRecordBack(Index, About)
           => /\ response.address = Defined(Index)
              /\ Len(response.actions) = 2
              /\ Range(response.actions) = {ENABLE_FORWARD, DISABLE_BACK}

\* C9 witness: the scenario has run to its goBack()
C9_Witness ==
    /\ RecordRecordBack(Index, About)
    /\ response.op = "goBackward"
    /\ entries = <<Index, About>>

----------------------------------------------------------------------------
(* Properties of the controller (Spec, BlankSpec) *)

\* a step in which handleNewPageLoad(p) runs
Records(p) ==
    \/ notifyExternalLoad(p)
    \/ \E s \in Pending :
           /\ s.URLExt = p
           /\ (s.updateHistory /\ setHtml(s)) \/ setUrlBarResumes(s)

\* a step in which a back/forward replay (setHtml without history) resumes
Replays == \E s \in Pending : s.call = "setHtml" /\ ~s.updateHistory /\ setHtml(s)

IsNavAction(m) == m.command = "changed-history"

\* C2: recording an address while cursor < entries.length - 1 discards every
\* entry after cursor, appends the address as the new tail and puts the cursor
\* on it; entries[0..cursor] are unchanged.
C2_RecordDiscardsForward ==
    [][\A p \in RequestAddrs :
           (Records(p) /\ cursor < Len(entries) - 1)
               => /\ entries' = Append(SubSeq(entries, 1, cursor + 1),
                                       relativeAddress(p))
                  /\ cursor' = Len(entries') - 1]_vars

\* C2 witness: a recorded load has just taken the forward entries away
C2_Witness ==
    /\ response.op = "addHistory"
    /\ DISABLE_FORWARD \in Range(response.actions)
    /\ Len(entries) = 2
    /\ cursor = 1

ButtonsMatch ==
    /\ ~buttons.back <=> canGoBack(entries, cursor)
    /\ ~buttons.forward <=> canGoForward(entries, cursor)

\* the actions of response' are exactly the changes of availability of the step
DeltaOnly ==
    LET a == Range(response'.actions)
        b0 == canGoBack(entries, cursor)
        b1 == canGoBack(entries', cursor')
        f0 == canGoForward(entries, cursor)
        f1 == canGoForward(entries', cursor')
    IN  /\ Len(response'.actions) = Cardinality(a)
        /\ ENABLE_BACK \in a <=> (~b0 /\ b1)
        /\ DISABLE_BACK \in a <=> (b0 /\ ~b1)
        /\ ENABLE_FORWARD \in a <=> (~f0 /\ f1)
        /\ DISABLE_FORWARD \in a <=> (f0 /\ ~f1)

\* C3: with every relayed NavAction applied in order to the state pushed by
\* currentActions(), back is enabled exactly when cursor > 0 and forward
\* exactly when cursor < entries.length - 1; every call returns at most one
\* action per direction, and none for a direction that did not change.
C3_ButtonState ==
    /\ ButtonsMatch
    /\ [][ButtonsMatch' /\ (response'.op # "none" => DeltaOnly)]_vars

\* C3 witness: both directions are enabled after a goBack
C3_Witness ==
    /\ response.op = "goBackward"
    /\ ~buttons.back
    /\ ~buttons.forward
    /\ cursor = 1

\* C4: goBack() at cursor 0 is a no-op: entries and cursor are unchanged, the
\* returned address is undefined and the returned action set is empty.
C4_BackAtStartIsNoOp ==
    [][(goBack /\ cursor = 0)
           => /\ UNCHANGED <<entries, cursor>>
              /\ response'.address = Undefined
              /\ response'.actions = << >>]_vars

\* C4 witness: goBack was refused on the first of two entries
C4_Witness ==
    /\ response.op = "goBackward"
    /\ response.address = Undefined
    /\ cursor = 0
    /\ Len(entries) = 2

\* C5: goForward() at the tail is a no-op: entries and cursor are unchanged,
\* the returned address is undefined and the returned action set is empty.
C5_ForwardAtTailIsNoOp ==
    [][(goForwards /\ cursor = Len(entries) - 1)
           => /\ UNCHANGED <<entries, cursor>>
              /\ response'.address = Undefined
              /\ response'.actions = << >>]_vars

\* C5 witness: goForwards was refused on the last of two entries
C5_Witness ==
    /\ response.op = "goForward"
    /\ response.address = Undefined
    /\ cursor = 1
    /\ Len(entries) = 2

\* C6: goBack(), goForwards() and the replay they start leave entries as they
\* were: navigating backward or forward only moves the cursor.
C6_ReplayKeepsEntries ==
    [][(goBack \/ goForwards \/ Replays) => entries' = entries]_vars

\* C6 witness: the replay of a goBack has rendered the first of two entries
C6_Witness ==
    /\ Len(entries) = 2
    /\ cursor = 0
    /\ entries[1] # entries[2]
    /\ html = Defined(entries[1])
    /\ currentAddress = entries[1]
    /\ inflight = EmptyBag
    /\ response = NoResponse

\* C10: a navigation or load report whose address is empty or only whitespace
\* is rejected before it reaches the HistoryStack: entries and cursor are
\* unchanged and no NavAction is relayed.
C10_BlankAddressRejected ==
    [][\A p \in BlankAddrs :
           (IsBlank(p) /\ (goToFile(p) \/ setUrlBar(p) \/ Records(p)))
               => /\ UNCHANGED <<entries, cursor>>
                  /\ response'.op = "none"
                  /\ \A i \in 1..Len(posted') : ~IsNavAction(posted'[i])]_vars

\* C18: goBack() and goForwards() start a render (a setHtml without history)
\* and change currentAddress only when PageHistory returns a defined address,
\* and relay every returned action in both cases; at a boundary they start
\* no render, leave currentAddress and the rendered content as they were and
\* relay the empty action set.
C18_RenderOnlyOnAddress ==
    [][(goBack \/ goForwards)
           => /\ posted' = relay(response'.actions)
              /\ html' = html
              /\ IF response'.address # Undefined
                 THEN /\ inflight' = inflight (+) SetToBag(
                             {Suspended("setHtml", response'.address[1], FALSE)})
                      /\ currentAddress' = response'.address[1]
                 ELSE /\ UNCHANGED <<inflight, currentAddress>>
                      /\ response'.actions = << >>]_vars

\* C18 witness: goForwards got an address, started its replay and relayed the
\* actions
C18_Witness ==
    /\ response.op = "goForward"
    /\ response.address # Undefined
    /\ BagIn(Suspended("setHtml", response.address[1], FALSE), inflight)
    /\ currentAddress = response.address[1]
    /\ Len(posted) > 0
    /\ posted = relay(response.actions)

----------------------------------------------------------------------------
(* Properties of the controller over the life of its panel (LifecycleSpec) *)

\* C11: a navigation whose host resolution fails records no history entry and
\* leaves entries and cursor as they were before the navigation was requested,
\* for the initial navigation of the panel and for back/forward replays as
\* well as for ordinary navigations.
C11_FailedNavigationLeavesHistory ==
    [][\A s \in Pending :
           resolveHostFails(s)
               => \E b \in BagToSet(before) :
                      /\ b.call = s
                      /\ before' = before (-) SetToBag({b})
                      /\ entries' = b.entries
                      /\ cursor' = b.cursor]_vars

\* a is not empty and begins with exactly one separator
HasLeadingSeparator(a) ==
    /\ Len(a) > 0
    /\ a[1] = "/"
    /\ Len(a) > 1 => a[2] # "/"

\* C17: every address in the history and the controller's currentAddress
\* begin with a single leading separator, whichever path recorded them.
C17_LeadingSeparator ==
    /\ \A i \in 1..Len(entries) : HasLeadingSeparator(entries[i])
    /\ HasLeadingSeparator(currentAddress)

\* C14: once the panel is disposed the controller posts no further message to
\* the webview and does not replace its content, even if a setHtml or a
\* setUrlBar was waiting for the host when the panel was disposed.
C14_NothingAfterDispose ==
    [][disposed => (posted' = << >> /\ html' = html)]_vars

----------------------------------------------------------------------------
(* Properties of the controller and the hosted frame (RaceSpec) *)

\* C20: whatever the interleaving of navigation requests and the order in
\* which their host resolutions complete, once no navigation is in flight the
\* address shown in the panel, the controller's currentAddress and the
\* history entry at the cursor are the same address.
C20_SettledAddressesAgree ==
    inflight = EmptyBag
        => /\ frame = Defined(currentAddress)
           /\ entries[cursor + 1] = currentAddress

----------------------------------------------------------------------------
(* Properties of main.js (DisplaySpec) *)

\* C13: two perform-url-check requests for the same address, the second while
\* the first is unanswered, send one urlCheck to the server: at most one
\* verification of an address is outstanding at a time.
C13_OneCheckPerAddress ==
    \A url \in DisplayAddrs : CopiesIn(url, urlChecks) <= 1

\* the document after main.js has handled first, then second
After(first, second) ==
    onMessage(onMessage(display, first).display, second).display

\* C19: from every state of the document, handling the message of a NavAction
\* before or after the set-url or update-path message of the same navigation
\* leaves the same button flags, url bar text and stored currentAddress.
C19_OrderDoesNotMatter ==
    \A n \in NavActionMessages, a \in AddressMessages :
        After(n, a) = After(a, n)

\* C19 witness: main.js has handled disable-back and a set-url or update-path
\* for logo.png
C19_Witness ==
    /\ display.back
    /\ ~display.forward
    /\ display.currentAddress = LogoRel
    /\ display.urlInput = constructAddress(LogoRel, HostURI)

----------------------------------------------------------------------------
(* Properties of the controller and main.js together (PanelSpec) *)

\* a document is loaded, every message in either direction was handled and no
\* call waits for the host
Settled ==
    /\ display.loaded
    /\ toWebview = << >>
    /\ toExtension = << >>
    /\ inflight = EmptyBag

\* the server answers the check of url with foundNonInjectable, and main.js
\* posts exactly one add-history message carrying url
AddHistoryPosted ==
    \A url \in DisplayAddrs :
        (socketMessage(url) /\ ~isFileInjectable(url))
            => toExtension' = Append(toExtension, Message("add-history", url))

\* the suspended setUrlBar(P) settles in this step
Settles(s) == s.call = "setUrlBar" /\ inflight' = inflight (-) SetToBag({s})

\* P is recorded (with its leading separator) and set-url for P is posted
RecordedAndShown(s) ==
    /\ response'.op = "addHistory"
    /\ entries'[cursor' + 1] = relativeAddress(s.URLExt)
    /\ currentAddress' = relativeAddress(s.URLExt)
    /\ posted' # << >>
    /\ posted'[1] = setUrlMessage(s.URLExt)

C15_ButtonsFollowHistory ==
    Settled => /\ display.back <=> ~canGoBack(entries, cursor)
               /\ display.forward <=> ~canGoForward(entries, cursor)

\* C16: a panel created with an initial address has exactly that entry, the
\* cursor on it, and DISABLE_BACK and DISABLE_FORWARD pushed to the webview;
\* as long as nothing else was recorded the document shows both buttons
\* disabled.
C16_StartsDisabled ==
    /\ PanelInit
           => /\ entries = <<currentAddress>>
              /\ cursor = 0
              /\ toWebview = relay(<<DISABLE_BACK, DISABLE_FORWARD>>)
    /\ (Settled /\ Len(entries) = 1)
           => (display.back /\ display.forward)

----------------------------------------------------------------------------
(* Properties of a navigation reported twice (ReportSpec) *)

\* the suspended setUrlBar(P) answers an add-history for the page the
\* controller has rendered itself and that is the entry at the cursor
SecondReport(s) ==
    /\ s.call = "setUrlBar"
    /\ html # Undefined
    /\ relativeAddress(html[1]) = relativeAddress(s.URLExt)
    /\ entries[cursor + 1] = relativeAddress(s.URLExt)

\* C21: a navigation to P the controller has rendered (recording it, or
\* replaying it for back/forward) and that main.js reports again with
\* add-history after a foundNonInjectable verdict adds no second entry for P
\* and discards no forward entry: the second report leaves entries and
\* cursor as they were.
C21_SecondReportAddsNothing ==
    [][\A s \in Pending :
           (SecondReport(s) /\ setUrlBarResumes(s))
               => UNCHANGED <<entries, cursor>>]_vars

====
